---- MODULE Spec2Model ----
(***************************************************************************)
(* A model of voting.py: the preference profile built from a worksheet,    *)
(* the voting rules (dictatorship, scoring_rule, plurality, veto, borda,   *)
(* harmonic, STV, range_voting) and tie_break_function.                    *)
(*                                                                         *)
(* A profile (a Python dict {agent: [alternatives]} keyed 1..n) is a       *)
(* sequence of sequences.  A Python dict of scores is a record             *)
(* [keys, val]: the keys in insertion order and the value of each key.     *)
(* The outcome of a call is a record [tag, val]: tag "return" with the     *)
(* alternative returned, tag "None" when the function falls off its end,   *)
(* and otherwise the class of the exception raised.                        *)
(***************************************************************************)
EXTENDS Integers, Sequences, FiniteSets

\* Bounds of the model.
MaxAgents == 2
MaxAlts == 3
MaxRow == 2
MaxColumn == 2
MaxValue == 1

VARIABLES
  values,        \* the worksheet: max_row, max_column, cell
  preferences,   \* the profile the caller holds (STV mutates it in place)
  pc,            \* "idle" | "stv" (inside STV's while loop) | "done"
  rule,          \* the function being called
  tie_break,     \* its tie_break argument
  score_vector,  \* scoring_rule's score_vector argument
  agent_arg,     \* dictatorship's agent argument
  winners,       \* the winners list handed to tie_break_function
  result,        \* the outcome of the call
  alternatives,  \* STV's local set of live alternatives
  eliminated,    \* STV's local list of the round, as a set
  rounds,        \* number of iterations of STV's while loop so far
  entry          \* the profile as it was passed to the call

vars == <<values, preferences, pc, rule, tie_break, score_vector, agent_arg,
          winners, result, alternatives, eliminated, rounds, entry>>

-----------------------------------------------------------------------------
\* Outcomes and small helpers.

Range(s) == {s[i] : i \in DOMAIN s}

Return(v) == [tag |-> "return", val |-> v]

ReturnNone == [tag |-> "None", val |-> 0]

Raise(e) == [tag |-> e, val |-> 0]

NoResult == [tag |-> "", val |-> 0]

Raised(r) == r.tag \in {"KeyError", "ValueError", "IndexError"}

NoTieBreak == [policy |-> "", agent |-> 0]

\* The tie_break arguments tried: the three keywords, an agent identifier
\* (which may or may not be a key of the profile) and any other value.
TieBreaks ==
  {[policy |-> p, agent |-> 0] : p \in {"max", "min", "random", "other"}}
    \cup {[policy |-> "agent", agent |-> k] : k \in 1..MaxAgents}

Failed(e) == [err |-> e, winners |-> <<>>]

Computed(w) == [err |-> "", winners |-> w]

\* Python's max(list) and min(list) on a non-empty list: a left-to-right scan.
RECURSIVE MaxFrom(_, _, _)
MaxFrom(w, i, best) ==
  IF i > Len(w) THEN best
  ELSE MaxFrom(w, i + 1, IF w[i] > best THEN w[i] ELSE best)

RECURSIVE MinFrom(_, _, _)
MinFrom(w, i, best) ==
  IF i > Len(w) THEN best
  ELSE MinFrom(w, i + 1, IF w[i] < best THEN w[i] ELSE best)

\* A mutant of PyMax: the first element, whatever the others are.
PyMaxFirst(w) == w[1]

PyMax(w) == MaxFrom(w, 2, w[1])

PyMin(w) == MinFrom(w, 2, w[1])

\* max(scores.values())
MaxScore(d) == PyMax([i \in 1..Len(d.keys) |-> d.val[d.keys[i]]])

\* [alt for alt, val in scores.items() if val == max_score]
WinnersOf(d) ==
  LET max_score == MaxScore(d)
      IsMax(alt) == d.val[alt] = max_score
  IN  SelectSeq(d.keys, IsMax)

EmptyDict == [keys |-> <<>>, val |-> <<>>]

\* {alt: 0 for alt in keys}
ZeroDict(keys) == [keys |-> keys, val |-> [a \in Range(keys) |-> 0]]

\* d[alt] = d.get(alt, 0) + x
AddGet(d, alt, x) ==
  IF alt \in Range(d.keys)
    THEN [d EXCEPT !.val[alt] = @ + x]
    ELSE [keys |-> Append(d.keys, alt),
          val |-> [a \in Range(d.keys) \cup {alt} |->
                     IF a = alt THEN x ELSE d.val[a]]]

\* The ballots of preferences.values() from agent a on, flattened in the order
\* the nested loops visit them: the alternative and its 0-based rank i.
RECURSIVE Ballots(_, _)
Ballots(prefs, a) ==
  IF a > Len(prefs) THEN <<>>
  ELSE [k \in 1..Len(prefs[a]) |-> [alt |-> prefs[a][k], i |-> k - 1]]
         \o Ballots(prefs, a + 1)

-----------------------------------------------------------------------------
\* tie_break_function: the set of outcomes the call can have (one outcome,
\* except for random.choice).

\* for alt in preferences[tie_break]: if alt in winners: return alt
RECURSIVE FirstIn(_, _, _)
FirstIn(pref, k, w) ==
  IF k > Len(pref) THEN ReturnNone
  ELSE IF pref[k] \in Range(w) THEN Return(pref[k])
  ELSE FirstIn(pref, k + 1, w)

tie_break_function(prefs, tb, w) ==
  IF Len(w) = 1 THEN {Return(w[1])}
  ELSE IF tb.policy = "max"
    THEN IF w = <<>> THEN {Raise("ValueError")} ELSE {Return(PyMax(w))}
  ELSE IF tb.policy = "min"
    THEN IF w = <<>> THEN {Raise("ValueError")} ELSE {Return(PyMin(w))}
  ELSE IF tb.policy = "random"
    THEN IF w = <<>> THEN {Raise("IndexError")}
         ELSE {Return(w[k]) : k \in 1..Len(w)}
  ELSE IF tb.policy = "agent" /\ tb.agent \in DOMAIN prefs
    THEN {FirstIn(prefs[tb.agent], 1, w)}
  ELSE {Raise("ValueError")}

\* What a rule returns: the exception of its own body, or the tie-break of
\* the winners it computed.
Outcomes(prefs, tb, wr) ==
  IF wr.err # "" THEN {Raise(wr.err)}
  ELSE tie_break_function(prefs, tb, wr.winners)

-----------------------------------------------------------------------------
\* The rules: each computes its winners list (or raises) and hands it to
\* tie_break_function.

\* dictatorship(preferences, agent)
dictatorship(prefs, agent) ==
  IF agent \notin DOMAIN prefs THEN Raise("ValueError")
  ELSE IF prefs[agent] = <<>> THEN Raise("IndexError")
  ELSE Return(prefs[agent][1])

\* scoring_rule's loops: scores[alt] += score_vector[i].  The subscript
\* scores[alt] is loaded before score_vector[i] is.
RECURSIVE ScoringLoop(_, _, _, _)
ScoringLoop(scores, ballots, k, sv) ==
  IF k > Len(ballots) THEN [err |-> "", scores |-> scores]
  ELSE LET b == ballots[k] IN
    IF b.alt \notin Range(scores.keys) THEN [err |-> "KeyError", scores |-> scores]
    ELSE IF b.i + 1 > Len(sv) THEN [err |-> "IndexError", scores |-> scores]
    ELSE ScoringLoop([scores EXCEPT !.val[b.alt] = @ + sv[b.i + 1]],
                     ballots, k + 1, sv)

scoring_rule_winners(prefs, sv) ==
  IF 1 \notin DOMAIN prefs THEN Failed("KeyError")
  ELSE LET m == Len(prefs[1]) IN
    IF Len(sv) # m THEN Failed("ValueError")
    ELSE LET acc == ScoringLoop(ZeroDict([a \in 1..m |-> a]),
                                Ballots(prefs, 1), 1, sv) IN
      IF acc.err # "" THEN Failed(acc.err)
      ELSE IF acc.scores.keys = <<>> THEN Failed("ValueError")
      ELSE Computed(WinnersOf(acc.scores))

scoring_rule(prefs, sv, tb) == Outcomes(prefs, tb, scoring_rule_winners(prefs, sv))

\* plurality's loop: top_counts[pref[0]] = top_counts.get(pref[0], 0) + 1
RECURSIVE TopCounts(_, _, _)
TopCounts(top_counts, prefs, a) ==
  IF a > Len(prefs) THEN [err |-> "", scores |-> top_counts]
  ELSE IF prefs[a] = <<>> THEN [err |-> "IndexError", scores |-> top_counts]
  ELSE TopCounts(AddGet(top_counts, prefs[a][1], 1), prefs, a + 1)

\* A mutant of plurality_winners: only the first alternative of the highest
\* tally is kept.
plurality_winners_first(prefs) ==
  LET acc == TopCounts(EmptyDict, prefs, 1) IN
    IF acc.err # "" THEN Failed(acc.err)
    ELSE IF acc.scores.keys = <<>> THEN Failed("ValueError")
    ELSE Computed(<<WinnersOf(acc.scores)[1]>>)

plurality_winners(prefs) ==
  LET acc == TopCounts(EmptyDict, prefs, 1) IN
    IF acc.err # "" THEN Failed(acc.err)
    ELSE IF acc.scores.keys = <<>> THEN Failed("ValueError")
    ELSE Computed(WinnersOf(acc.scores))

plurality(prefs, tb) == Outcomes(prefs, tb, plurality_winners(prefs))

\* veto's and borda's loops: scores[alt] += points, over a dict keyed by
\* agent 1's ranking.  points[k] is what the k-th ballot adds.
RECURSIVE AddLoop(_, _, _, _)
AddLoop(scores, ballots, k, points) ==
  IF k > Len(ballots) THEN [err |-> "", scores |-> scores]
  ELSE LET b == ballots[k] IN
    IF b.alt \notin Range(scores.keys) THEN [err |-> "KeyError", scores |-> scores]
    ELSE AddLoop([scores EXCEPT !.val[b.alt] = @ + points[k]],
                 ballots, k + 1, points)

\* pref[:-1] for every pref
AllButLast(prefs) ==
  [a \in 1..Len(prefs) |-> SubSeq(prefs[a], 1, Len(prefs[a]) - 1)]

veto_winners(prefs) ==
  IF 1 \notin DOMAIN prefs THEN Failed("KeyError")
  ELSE LET ballots == Ballots(AllButLast(prefs), 1)
           acc == AddLoop(ZeroDict(prefs[1]), ballots, 1,
                          [k \in 1..Len(ballots) |-> 1]) IN
      IF acc.err # "" THEN Failed(acc.err)
      ELSE IF acc.scores.keys = <<>> THEN Failed("ValueError")
      ELSE Computed(WinnersOf(acc.scores))

veto(prefs, tb) == Outcomes(prefs, tb, veto_winners(prefs))

\* A mutant of BordaPoints: scores[alt] += i
BordaPointsRank(m, i) == i

\* scores[alt] += m - i
BordaPoints(m, i) == m - i

borda_winners(prefs) ==
  IF 1 \notin DOMAIN prefs THEN Failed("KeyError")
  ELSE LET m == Len(prefs[1])
           ballots == Ballots(prefs, 1)
           acc == AddLoop(ZeroDict(prefs[1]), ballots, 1,
                          [k \in 1..Len(ballots) |-> BordaPoints(m, ballots[k].i)]) IN
      IF acc.err # "" THEN Failed(acc.err)
      ELSE IF acc.scores.keys = <<>> THEN Failed("ValueError")
      ELSE Computed(WinnersOf(acc.scores))

borda(prefs, tb) == Outcomes(prefs, tb, borda_winners(prefs))

\* harmonic's loop: scores[alt] = scores.get(alt, 0) + 1 / (i + 1).  The
\* scores are kept as exact multiples of 1/scale, scale a common multiple of
\* every i + 1; the doubles of the source compare equal exactly when these do
\* for profiles of up to three agents and four alternatives (beyond that,
\* rounding can separate two sums that are equal as fractions).
RECURSIVE Factorial(_)
Factorial(k) == IF k <= 1 THEN 1 ELSE k * Factorial(k - 1)

RECURSIVE LongestRanking(_, _)
LongestRanking(prefs, a) ==
  IF a > Len(prefs) THEN 0
  ELSE LET rest == LongestRanking(prefs, a + 1) IN
         IF Len(prefs[a]) > rest THEN Len(prefs[a]) ELSE rest

RECURSIVE HarmonicLoop(_, _, _, _)
HarmonicLoop(scores, ballots, k, scale) ==
  IF k > Len(ballots) THEN scores
  ELSE HarmonicLoop(AddGet(scores, ballots[k].alt, scale \div (ballots[k].i + 1)),
                    ballots, k + 1, scale)

harmonic_winners(prefs) ==
  LET scores == HarmonicLoop(EmptyDict, Ballots(prefs, 1), 1,
                             Factorial(LongestRanking(prefs, 1))) IN
    IF scores.keys = <<>> THEN Failed("ValueError")
    ELSE Computed(WinnersOf(scores))

harmonic(prefs, tb) == Outcomes(prefs, tb, harmonic_winners(prefs))

-----------------------------------------------------------------------------
\* STV's round.

\* counts = {alt: 0 for alt in alternatives}, then for every pref:
\* if pref: if pref[0] in counts: counts[pref[0]] += 1
RECURSIVE CountTops(_, _, _)
CountTops(counts, prefs, a) ==
  IF a > Len(prefs) THEN counts
  ELSE IF prefs[a] # <<>> /\ prefs[a][1] \in DOMAIN counts
    THEN CountTops([counts EXCEPT ![prefs[a][1]] = @ + 1], prefs, a + 1)
  ELSE CountTops(counts, prefs, a + 1)

\* A mutant of MinCount: max(counts.values())
MaxCount(counts) ==
  CHOOSE c \in Range(counts) : \A a \in DOMAIN counts : c >= counts[a]

\* min(counts.values()) of a non-empty dict
MinCount(counts) ==
  CHOOSE c \in Range(counts) : \A a \in DOMAIN counts : c <= counts[a]

\* A mutant of Eliminated: if cnt < min_count
EliminatedBelowMin(live, prefs) ==
  LET counts == CountTops([alt \in live |-> 0], prefs, 1)
      min_count == MinCount(counts)
  IN  {alt \in live : counts[alt] < min_count}

\* eliminated = [alt for alt, cnt in counts.items() if cnt == min_count]
Eliminated(live, prefs) ==
  LET counts == CountTops([alt \in live |-> 0], prefs, 1)
      min_count == MinCount(counts)
  IN  {alt \in live : counts[alt] = min_count}

\* pref.remove(alt): the first occurrence goes
RECURSIVE Remove(_, _)
Remove(pref, alt) ==
  IF pref = <<>> THEN <<>>
  ELSE IF Head(pref) = alt THEN Tail(pref)
  ELSE <<Head(pref)>> \o Remove(Tail(pref), alt)

\* A mutant of RemoveAll: the loop over eliminated is left after its first
\* removal.
RemoveOne(pref, elim) ==
  IF elim \cap Range(pref) = {} THEN pref
  ELSE Remove(pref, CHOOSE x \in elim \cap Range(pref) : TRUE)

\* for alt in eliminated: if alt in pref: pref.remove(alt)
RECURSIVE RemoveAll(_, _)
RemoveAll(pref, elim) ==
  IF elim = {} THEN pref
  ELSE LET alt == CHOOSE x \in elim : TRUE IN
    RemoveAll(IF alt \in Range(pref) THEN Remove(pref, alt) ELSE pref,
              elim \ {alt})

\* list(alternatives): some order of the set (it matters to no outcome)
RECURSIVE ListOf(_)
ListOf(S) ==
  IF S = {} THEN <<>>
  ELSE LET x == CHOOSE y \in S : \A z \in S : y <= z IN <<x>> \o ListOf(S \ {x})

-----------------------------------------------------------------------------
\* The worksheet, generate_preferences and range_voting.

EmptySheet == [max_row |-> 0, max_column |-> 0, cell |-> <<>>]

Sheets ==
  UNION {[max_row : {r}, max_column : {c},
          cell : [1..r -> [1..c -> 0..MaxValue]]] :
           r \in 0..MaxRow, c \in 0..MaxColumn}

\* A mutant of InsertPoint: an item goes before the items of equal key.
RECURSIVE InsertPointBeforeEqual(_, _, _)
InsertPointBeforeEqual(ranked, x, k) ==
  IF k > Len(ranked) \/ ranked[k][2] <= x[2] THEN k
  ELSE InsertPointBeforeEqual(ranked, x, k + 1)

\* sorted(..., key=lambda x: x[1], reverse=True) keeps the items of equal key
\* in their order: an item goes behind every item whose key is not smaller.
RECURSIVE InsertPoint(_, _, _)
InsertPoint(ranked, x, k) ==
  IF k > Len(ranked) \/ ranked[k][2] < x[2] THEN k
  ELSE InsertPoint(ranked, x, k + 1)

Insert(ranked, x) ==
  LET k == InsertPoint(ranked, x, 1) IN
    SubSeq(ranked, 1, k - 1) \o <<x>> \o SubSeq(ranked, k, Len(ranked))

RECURSIVE SortedFrom(_, _, _)
SortedFrom(ranked, items, k) ==
  IF k > Len(items) THEN ranked
  ELSE SortedFrom(Insert(ranked, items[k]), items, k + 1)

\* sorted(enumerate(vals, 1), key=lambda x: x[1], reverse=True)
Ranked(vals) ==
  SortedFrom(<<>>, [col \in 1..Len(vals) |-> <<col, vals[col]>>], 1)

generate_preferences(sheet) ==
  [row \in 1..sheet.max_row |->
     LET ranked == Ranked([col \in 1..sheet.max_column |-> sheet.cell[row][col]])
     IN  [k \in 1..Len(ranked) |-> ranked[k][1]]]

\* sum(values.cell(row, col).value for row in range(1, values.max_row + 1))
RECURSIVE ColumnSum(_, _, _)
ColumnSum(sheet, col, row) ==
  IF row > sheet.max_row THEN 0
  ELSE sheet.cell[row][col] + ColumnSum(sheet, col, row + 1)

range_voting_winners(sheet) ==
  LET num_alts == sheet.max_column
      scores == [keys |-> [col \in 1..num_alts |-> col],
                 val |-> [col \in 1..num_alts |-> ColumnSum(sheet, col, 1)]]
  IN  IF num_alts = 0 THEN Failed("ValueError")
      ELSE Computed(WinnersOf(scores))

range_voting(sheet, tb) ==
  Outcomes(generate_preferences(sheet), tb, range_voting_winners(sheet))

-----------------------------------------------------------------------------
\* The arguments the calls are tried with.

\* The rankings generate_preferences produces for m columns.
Rankings(m) ==
  {p \in [1..m -> 1..m] : \A i, j \in 1..m : i # j => p[i] # p[j]}

\* The profiles generate_preferences produces for n rows and m >= 1 columns.
Profiles ==
  UNION {[1..n -> Rankings(m)] : n \in 0..MaxAgents, m \in 1..MaxAlts}

BordaVector(m) == [k \in 1..m |-> m - k + 1]

VetoVector(m) == [k \in 1..m |-> IF k = m THEN 0 ELSE 1]

PluralityVector(m) == [k \in 1..m |-> IF k = 1 THEN 1 ELSE 0]

\* m as the rules read it: len(preferences[1])
NumAlts(prefs) == IF 1 \in DOMAIN prefs THEN Len(prefs[1]) ELSE 0

\* The score vectors tried: the three named ones of the right length, and one
\* that is too long.
ScoreVectors(prefs) ==
  LET m == NumAlts(prefs) IN
    {BordaVector(m), VetoVector(m), PluralityVector(m), BordaVector(m + 1)}

-----------------------------------------------------------------------------
\* The state machine: a caller holding a profile (or a worksheet) calls one
\* function after another.

NoCall ==
  /\ pc = "idle"
  /\ rule = ""
  /\ tie_break = NoTieBreak
  /\ score_vector = <<>>
  /\ agent_arg = 0
  /\ winners = <<>>
  /\ result = NoResult
  /\ alternatives = {}
  /\ eliminated = {}
  /\ rounds = 0
  /\ entry = <<>>

\* The caller holds a profile.
Init ==
  /\ values = EmptySheet
  /\ preferences \in Profiles
  /\ NoCall

\* The caller holds a worksheet.
InitValues ==
  /\ values \in Sheets
  /\ preferences = <<>>
  /\ NoCall

\* A call that runs to its end in one step and leaves the profile alone.
Called(name, tb, sv, agent, w, outcomes) ==
  /\ pc = "idle"
  /\ pc' = "done"
  /\ rule' = name
  /\ tie_break' = tb
  /\ score_vector' = sv
  /\ agent_arg' = agent
  /\ winners' = w
  /\ result' \in outcomes
  /\ entry' = preferences
  /\ UNCHANGED <<values, preferences, alternatives, eliminated, rounds>>

CallDictatorship ==
  \E agent \in 1..MaxAgents + 1 :
    Called("dictatorship", NoTieBreak, <<>>, agent, <<>>,
           {dictatorship(preferences, agent)})

CallScoringRule ==
  \E tb \in TieBreaks : \E sv \in ScoreVectors(preferences) :
    Called("scoring_rule", tb, sv, 0,
           scoring_rule_winners(preferences, sv).winners,
           scoring_rule(preferences, sv, tb))

CallPlurality ==
  \E tb \in TieBreaks :
    Called("plurality", tb, <<>>, 0, plurality_winners(preferences).winners,
           plurality(preferences, tb))

CallVeto ==
  \E tb \in TieBreaks :
    Called("veto", tb, <<>>, 0, veto_winners(preferences).winners,
           veto(preferences, tb))

CallBorda ==
  \E tb \in TieBreaks :
    Called("borda", tb, <<>>, 0, borda_winners(preferences).winners,
           borda(preferences, tb))

CallHarmonic ==
  \E tb \in TieBreaks :
    Called("harmonic", tb, <<>>, 0, harmonic_winners(preferences).winners,
           harmonic(preferences, tb))

\* STV up to its while loop: alternatives = set(preferences[1])
CallSTV ==
  \E tb \in TieBreaks :
    /\ pc = "idle"
    /\ rule' = "STV"
    /\ tie_break' = tb
    /\ entry' = preferences
    /\ IF 1 \in DOMAIN preferences
         THEN /\ alternatives' = Range(preferences[1])
              /\ pc' = "stv"
              /\ result' = result
         ELSE /\ alternatives' = alternatives
              /\ pc' = "done"
              /\ result' = Raise("KeyError")
    /\ UNCHANGED <<values, preferences, score_vector, agent_arg, winners,
                   eliminated, rounds>>

\* One iteration of STV's while loop.
STVRound ==
  /\ pc = "stv"
  /\ Cardinality(alternatives) > 1
  /\ LET elim == Eliminated(alternatives, preferences) IN
       /\ eliminated' = elim
       /\ preferences' = [a \in DOMAIN preferences |->
                            RemoveAll(preferences[a], elim)]
       /\ alternatives' = alternatives \ elim
  /\ rounds' = rounds + 1
  /\ UNCHANGED <<values, pc, rule, tie_break, score_vector, agent_arg,
                 winners, result, entry>>

\* The loop is left: return tie_break_function(preferences, tie_break,
\* list(alternatives))
STVReturn ==
  /\ pc = "stv"
  /\ ~(Cardinality(alternatives) > 1)
  /\ winners' = ListOf(alternatives)
  /\ result' \in tie_break_function(preferences, tie_break, winners')
  /\ pc' = "done"
  /\ UNCHANGED <<values, preferences, rule, tie_break, score_vector,
                 agent_arg, alternatives, eliminated, rounds, entry>>

CallGeneratePreferences ==
  /\ pc = "idle"
  /\ pc' = "done"
  /\ rule' = "generate_preferences"
  /\ preferences' = generate_preferences(values)
  /\ entry' = preferences
  /\ UNCHANGED <<values, tie_break, score_vector, agent_arg, winners, result,
                 alternatives, eliminated, rounds>>

CallRangeVoting ==
  \E tb \in TieBreaks :
    Called("range_voting", tb, <<>>, 0, range_voting_winners(values).winners,
           range_voting(values, tb))

\* The call is over; its locals are gone, the profile stays as it is.
Finish ==
  /\ pc = "done"
  /\ pc' = "idle"
  /\ rule' = ""
  /\ tie_break' = NoTieBreak
  /\ score_vector' = <<>>
  /\ agent_arg' = 0
  /\ winners' = <<>>
  /\ result' = NoResult
  /\ alternatives' = {}
  /\ eliminated' = {}
  /\ rounds' = 0
  /\ entry' = <<>>
  /\ UNCHANGED <<values, preferences>>

Next ==
  \/ CallDictatorship
  \/ CallScoringRule
  \/ CallPlurality
  \/ CallVeto
  \/ CallBorda
  \/ CallHarmonic
  \/ CallSTV
  \/ STVRound
  \/ STVReturn
  \/ Finish

NextValues ==
  \/ CallGeneratePreferences
  \/ CallRangeVoting
  \/ Finish

Spec == Init /\ [][Next]_vars

SpecValues == InitValues /\ [][NextValues]_vars

-----------------------------------------------------------------------------
\* Vocabulary of the properties.

VotingRules ==
  {"scoring_rule", "plurality", "veto", "borda", "harmonic", "STV", "range_voting"}

\* Every agent ranks the alternatives agent 1 ranks, each once.
Uniform(prefs) ==
  /\ 1 \in DOMAIN prefs
  /\ \A a \in DOMAIN prefs :
       /\ Len(prefs[a]) = Len(prefs[1])
       /\ Range(prefs[a]) = Range(prefs[1])
       /\ Cardinality(Range(prefs[a])) = Len(prefs[a])

\* Every agent's ranking is a permutation of 1..m, m the length of agent 1's.
RanksOneToM(prefs) ==
  /\ 1 \in DOMAIN prefs
  /\ \A a \in DOMAIN prefs :
       /\ Len(prefs[a]) = Len(prefs[1])
       /\ Range(prefs[a]) = 1..Len(prefs[1])

\* The tie-break policy is 'max', 'min' or an agent of the profile.
DeterministicTieBreak ==
  \/ tie_break.policy \in {"max", "min"}
  \/ tie_break.policy = "agent" /\ tie_break.agent \in DOMAIN preferences

\* How many agents rank alt first in prefs.
TopRankTally(prefs, alt) ==
  Cardinality({a \in DOMAIN prefs : prefs[a] # <<>> /\ prefs[a][1] = alt})

\* pref with only the alternatives of live left, in pref's order.
Restricted(pref, live) ==
  LET IsLive(alt) == alt \in live IN SelectSeq(pref, IsLive)

\* The lists that hold the elements of w in some order.
Orderings(w) ==
  {v \in [1..Len(w) -> Range(w)] : Range(v) = Range(w)}

-----------------------------------------------------------------------------
\* C1 (as claimed): whenever a rule's call returns, what it returns is an
\* element of the winners the rule computed before tie-breaking.
C1_RuleOutputMembership ==
  (pc = "done" /\ rule \in VotingRules /\ ~Raised(result))
    => (result.tag = "return" /\ result.val \in Range(winners))

\* What does hold of every rule: an alternative that is returned is one of
\* the winners computed.
ReturnedAlternativeIsWinner ==
  (pc = "done" /\ rule \in VotingRules /\ result.tag = "return")
    => result.val \in Range(winners)

\* C3 (as claimed): when a round of STV has emptied the live set, the call
\* raises, whatever the tie-break policy; it returns nothing, None included.
C3_WipeoutRaises ==
  (pc = "done" /\ rule = "STV" /\ rounds > 0 /\ alternatives = {})
    => Raised(result)

\* C4 (as claimed): with an agent of the profile as policy and a winners list
\* of length other than one, the resolver returns the first alternative of
\* the agent's ranking that is a winner, and raises when there is none.
C4_AgentTieBreak ==
  (/\ pc = "done"
   /\ rule \in VotingRules
   /\ tie_break.policy = "agent"
   /\ tie_break.agent \in DOMAIN preferences
   /\ Len(winners) # 1)
    => LET pref == preferences[tie_break.agent]
           hits == {k \in 1..Len(pref) : pref[k] \in Range(winners)}
       IN  IF hits = {} THEN Raised(result)
           ELSE \E k \in hits :
                  /\ \A j \in hits : k <= j
                  /\ result = Return(pref[k])

\* C2: in STV on a profile whose agents all rank the m alternatives of
\* agent 1, every round of the loop leaves strictly fewer live alternatives
\* than it found, and no round runs beyond the (m-1)-th: the loop is left
\* after at most m-1 rounds.
C2_STVShrinks ==
  [][(pc = "stv" /\ rounds' = rounds + 1 /\ Uniform(entry))
       => /\ alternatives' \subseteq alternatives
          /\ alternatives' # alternatives
          /\ rounds' <= Len(entry[1]) - 1]_vars

\* C2's case: a run of STV on three alternatives that took two rounds.
C2_Witness ==
  /\ pc = "done"
  /\ rule = "STV"
  /\ Uniform(entry)
  /\ Len(entry[1]) = 3
  /\ rounds = 2

\* C5 (as claimed): on any profile, with a deterministic tie-break, borda
\* returns what scoring_rule returns for [m, ..., 1], veto what scoring_rule
\* returns for [1, ..., 1, 0], and the winner sets are the same.
C5_AnyProfile ==
  (pc = "done" /\ 1 \in DOMAIN preferences /\ DeterministicTieBreak)
    => LET m == NumAlts(preferences) IN
       /\ rule = "borda" =>
            /\ {result} = scoring_rule(preferences, BordaVector(m), tie_break)
            /\ Range(winners) =
                 Range(scoring_rule_winners(preferences, BordaVector(m)).winners)
       /\ rule = "veto" =>
            /\ {result} = scoring_rule(preferences, VetoVector(m), tie_break)
            /\ Range(winners) =
                 Range(scoring_rule_winners(preferences, VetoVector(m)).winners)

\* C5 (amended): the same, on a profile whose rankings are permutations of
\* 1..m; and scoring_rule called with either vector returns what borda,
\* respectively veto, returns.
C5_BordaVetoScoring ==
  (pc = "done" /\ RanksOneToM(preferences) /\ DeterministicTieBreak)
    => LET m == NumAlts(preferences) IN
       /\ rule = "borda" =>
            /\ {result} = scoring_rule(preferences, BordaVector(m), tie_break)
            /\ Range(winners) =
                 Range(scoring_rule_winners(preferences, BordaVector(m)).winners)
       /\ rule = "veto" =>
            /\ {result} = scoring_rule(preferences, VetoVector(m), tie_break)
            /\ Range(winners) =
                 Range(scoring_rule_winners(preferences, VetoVector(m)).winners)
       /\ (rule = "scoring_rule" /\ score_vector = BordaVector(m)) =>
            /\ {result} = borda(preferences, tie_break)
            /\ Range(winners) = Range(borda_winners(preferences).winners)
       /\ (rule = "scoring_rule" /\ score_vector = VetoVector(m)) =>
            /\ {result} = veto(preferences, tie_break)
            /\ Range(winners) = Range(veto_winners(preferences).winners)

\* C5's case: borda has returned from a tie that an agent's ranking broke.
C5_Witness ==
  /\ pc = "done"
  /\ rule = "borda"
  /\ RanksOneToM(preferences)
  /\ tie_break.policy = "agent"
  /\ tie_break.agent \in DOMAIN preferences
  /\ Len(winners) >= 2
  /\ result.tag = "return"

C7_ProfileConstruction ==
  (pc = "done" /\ rule = "generate_preferences")
    => /\ DOMAIN preferences = 1..values.max_row
       /\ values.max_row = 0 => preferences = <<>>
       /\ \A r \in 1..values.max_row :
            LET pref == preferences[r]
                v(col) == values.cell[r][col]
            IN  /\ Len(pref) = values.max_column
                /\ Range(pref) = 1..values.max_column
                /\ \A j, k \in 1..Len(pref) :
                     j < k => \/ v(pref[j]) > v(pref[k])
                              \/ v(pref[j]) = v(pref[k]) /\ pref[j] < pref[k]

\* C7's case: a profile built from a sheet with a row of two equal cells and
\* a row whose second cell is the larger.
C7_Witness ==
  /\ pc = "done"
  /\ rule = "generate_preferences"
  /\ values.max_column >= 2
  /\ \E r \in 1..values.max_row : values.cell[r][1] = values.cell[r][2]
  /\ \E r \in 1..values.max_row : values.cell[r][1] < values.cell[r][2]

\* C8: with policy 'max' or 'min' and a non-empty winners list the resolver
\* has one outcome: a member of winners, the largest for 'max', the smallest
\* for 'min', the same for every order of the list and for any profile.
C8_MaxMinTieBreak ==
  (/\ pc = "done"
   /\ rule \in VotingRules
   /\ tie_break.policy \in {"max", "min"}
   /\ winners # <<>>)
    => /\ result.tag = "return"
       /\ result.val \in Range(winners)
       /\ tie_break.policy = "max" => \A x \in Range(winners) : result.val >= x
       /\ tie_break.policy = "min" => \A x \in Range(winners) : result.val <= x
       /\ \A w \in Orderings(winners) : \A prefs \in {<<>>, preferences} :
            tie_break_function(prefs, tie_break, w) = {result}

\* C8's case: 'max' has resolved a tie whose list is not in ascending order.
C8_Witness ==
  /\ pc = "done"
  /\ rule \in VotingRules
  /\ tie_break.policy = "max"
  /\ Len(winners) >= 2
  /\ winners[1] > winners[2]
  /\ result.tag = "return"

\* C9: every round of STV eliminates exactly the live alternatives whose
\* top-rank tally is the least among the live ones, and leaves every agent's
\* ranking holding exactly the alternatives still live, in the order the
\* agent ranked them when STV was called.
C9_STVRound ==
  [][(pc = "stv" /\ rounds' = rounds + 1)
       => LET least == {x \in alternatives : \A y \in alternatives :
                          TopRankTally(preferences, x) <= TopRankTally(preferences, y)}
          IN  /\ eliminated' = least
              /\ alternatives' = alternatives \ least
              /\ DOMAIN preferences' = DOMAIN entry
              /\ \A a \in DOMAIN entry :
                   preferences'[a] = Restricted(entry[a], alternatives')]_vars

\* C9's case: a second round has run, on the rankings the first round
\* shortened, and has eliminated two alternatives at once.
C9_Witness ==
  /\ pc = "stv"
  /\ rounds = 2
  /\ Cardinality(eliminated) = 2

====
